---- MODULE Spec2Model ----
(***************************************************************************)
(* Deploy lifecycle of the Build & Ship editor extension (deploy.ts):      *)
(* deploy(), startDeployWatcher(), the watcher's interval callback, the    *)
(* deploy terminal's close listener, and the module-level handles          *)
(* activeDeployTerminal, deployStatusItem, deployWatcherInterval.          *)
(*                                                                         *)
(* The extension host is single threaded: every action below is one        *)
(* synchronous run of code between two suspension points (await, timer     *)
(* callback, event delivery).                                              *)
(***************************************************************************)
EXTENDS Integers, Sequences, FiniteSets, TLC

\* ------------------------------------------------------------------ bounds

\* deploy() invocations made over the life of the extension
MaxDeploys == 2
\* timer firings, over all watchers, explored by the interleaving specification
TickCap == 2
\* poll ticks of one watcher whose queries are unresolved at the same time
MaxInFlight == 2

\* const maxTicks = 600
maxTicks == 600

\* destroy() invocations made over the life of the extension
MaxDestroys == 3

Deploys == 1..MaxDeploys
Destroys == 1..MaxDestroys

\* ------------------------------------------------------------- CLI results

Names == {"app", "api"}
Statuses == {"", "live", "building", "failed"}
Urls == {"", "u1", "u2"}

\* ListProject: public_url is optional, "" stands for a missing or empty one
ListEntry == [name : Names, status : Statuses, public_url : Urls]
\* StatusProject: url is optional; the fields the merge falls back to
StatusEntry == [name : Names, status : {"", "live", "failed"}, url : {"", "u1"}]

\* `bs list --json`: the projects of the account, each name once, in any order
ListResults ==
  {<<>>} \cup {<<e>> : e \in ListEntry}
         \cup {<<e, f>> : e \in {x \in ListEntry : x.name = "app"},
                          f \in {x \in ListEntry : x.name = "api"}}
         \cup {<<f, e>> : e \in {x \in ListEntry : x.name = "app"},
                          f \in {x \in ListEntry : x.name = "api"}}

\* `bs status --json`: the projects array of the answer
StatusResults == {<<>>} \cup {<<e>> : e \in StatusEntry}

\* what the CLI would answer at one moment
CliStates == [list : ListResults, status : StatusResults]

\* the CLI states the interleaving specification moves through: one project,
\* not yet known, building, live (its URL reported by `bs status`), or failed
RaceCliStates ==
  { [list |-> <<>>, status |-> <<>>],
    [list |-> <<[name |-> "app", status |-> "building", public_url |-> ""]>>,
     status |-> <<>>],
    [list |-> <<[name |-> "app", status |-> "live", public_url |-> ""]>>,
     status |-> <<[name |-> "app", status |-> "live", url |-> "u1"]>>],
    [list |-> <<[name |-> "app", status |-> "failed", public_url |-> ""]>>,
     status |-> <<[name |-> "app", status |-> "failed", url |-> ""]>>] }

\* how a query promise settles: fulfilled with a value, or rejected (process
\* error or parse error)
Fulfilled(v) == [ok |-> TRUE, value |-> v]
Rejected == [ok |-> FALSE, value |-> <<>>]
\* a query against CLI answer v settles with it, or rejects where it may
Settled(v, mayReject) == {Fulfilled(v)} \cup (IF mayReject THEN {Rejected} ELSE {})

\* listProjects().catch(() => [])
ListOrEmpty_FailedEntry(r) ==
  IF r.ok THEN r.value
  ELSE <<[name |-> "app", status |-> "failed", public_url |-> ""]>>
ListOrEmpty(r) == IF r.ok THEN r.value ELSE <<>>
\* statusAll().catch(() => ({ projects: [] })), then status.projects
StatusOrEmpty(r) == IF r.ok THEN r.value ELSE <<>>

\* ------------------------------------------------------- snapshot and merge

\* Map.get on a name that was never set
Absent == [present |-> FALSE, status |-> "", url |-> ""]
NoEntries == [n \in Names |-> Absent]

RECURSIVE StatusMapLoop(_, _, _)
StatusMapLoop(status, i, m) ==
  IF i > Len(status) THEN m
  ELSE StatusMapLoop(status, i + 1,
         [m EXCEPT ![status[i].name] =
            [present |-> TRUE, status |-> status[i].status, url |-> status[i].url]])

\* new Map(status.projects.map((s) => [s.name, s]))
StatusMapOf(status) == StatusMapLoop(status, 1, NoEntries)

\* p.status || s?.status || ""
MergedStatus_StatusFirst(p, s) ==
  IF s.present /\ s.status # "" THEN s.status ELSE p.status
MergedStatus(p, s) ==
  IF p.status # "" THEN p.status
  ELSE IF s.present /\ s.status # "" THEN s.status
  ELSE ""

\* p.public_url || s?.url || ""
MergedUrl(p, s) ==
  IF p.public_url # "" THEN p.public_url
  ELSE IF s.present /\ s.url # "" THEN s.url
  ELSE ""

RECURSIVE SnapshotLoop(_, _, _, _)
SnapshotLoop(projects, statusMap, i, snap) ==
  IF i > Len(projects) THEN snap
  ELSE LET p == projects[i]
           s == statusMap[p.name]
       IN SnapshotLoop(projects, statusMap, i + 1,
            [snap EXCEPT ![p.name] =
               [present |-> TRUE, status |-> MergedStatus(p, s), url |-> MergedUrl(p, s)]])

\* the snapshot phase of startDeployWatcher
BuildSnapshot(projects, status) ==
  SnapshotLoop(projects, StatusMapOf(status), 1, NoEntries)

\* the snapshot entries a project starts a session with, up to renaming URLs
SnapshotEntries ==
  { Absent,
    [present |-> TRUE, status |-> "live", url |-> "u1"],
    [present |-> TRUE, status |-> "live", url |-> ""],
    [present |-> TRUE, status |-> "building", url |-> ""],
    [present |-> TRUE, status |-> "building", url |-> "u1"],
    [present |-> TRUE, status |-> "failed", url |-> ""],
    [present |-> TRUE, status |-> "", url |-> ""] }
Snapshots == [Names -> SnapshotEntries]

\* ------------------------------------------------------------ the two rules

NoEvent == [kind |-> "none", name |-> "", url |-> ""]

\* wasNotLive || urlChanged, under currentStatus === "live" && currentUrl
SuccessRule_AnyLive(currentStatus, currentUrl, prev) ==
  currentStatus = "live" /\ currentUrl # ""
SuccessRule(currentStatus, currentUrl, prev) ==
  /\ currentStatus = "live"
  /\ currentUrl # ""
  /\ LET urlChanged == (~prev.present) \/ prev.url # currentUrl
         wasNotLive == (~prev.present) \/ prev.status # "live"
     IN wasNotLive \/ urlChanged

\* currentStatus === "failed" && prev && prev.status !== "failed"
FailureRule_AnyFailed(currentStatus, prev) ==
  currentStatus = "failed"
FailureRule_AbsentCounts(currentStatus, prev) ==
  currentStatus = "failed" /\ (~prev.present \/ prev.status # "failed")
FailureRule(currentStatus, prev) ==
  currentStatus = "failed" /\ prev.present /\ prev.status # "failed"

RECURSIVE EvaluateLoop(_, _, _, _)
EvaluateLoop(projects, statusMap, snap, i) ==
  IF i > Len(projects) THEN NoEvent
  ELSE LET p == projects[i]
           s == statusMap[p.name]
           currentStatus == MergedStatus(p, s)
           currentUrl == MergedUrl(p, s)
           prev == snap[p.name]
       IN IF SuccessRule(currentStatus, currentUrl, prev)
            THEN [kind |-> "success", name |-> p.name, url |-> currentUrl]
          ELSE IF FailureRule(currentStatus, prev)
            THEN [kind |-> "failure", name |-> p.name, url |-> ""]
          ELSE EvaluateLoop(projects, statusMap, snap, i + 1)

\* the for loop of one poll tick: the event of the first project that matches
EvaluateTick_Reversed(projects, status, snap) ==
  EvaluateLoop([i \in 1..Len(projects) |-> projects[Len(projects) + 1 - i]],
               StatusMapOf(status), snap, 1)
EvaluateTick(projects, status, snap) ==
  EvaluateLoop(projects, StatusMapOf(status), snap, 1)

\* ------------------------------------------------------ exec and execJSON

\* the argument lists of listProjects, statusAll and statusDetail(project)
QueryArgs == {<<"list">>, <<"status">>, <<"status", "app">>, <<"status", "api">>}

\* what the subprocess wrote to stdout: JSON documents, and texts that are not
Stdouts == {"[]", "{\"projects\":[]}", "null", "", "Not logged in", "[{\"name\":"}
\* what it wrote to stderr: nothing, white space only, a message
Stderrs == {"", "  ", "boom"}
\* the error execFile hands to its callback: null, or an Error with this message
ProcErrors == {"null", "Command failed", "ETIMEDOUT", "ENOENT"}

\* a JavaScript value JSON.parse returns
JsonValue(type) == [type |-> type, projects |-> <<>>]
NoValue == JsonValue("none")

\* JSON.parse(out): the value of a JSON document, a SyntaxError for other text
JsonParse(out) ==
  CASE out = "[]" -> [threw |-> FALSE, value |-> JsonValue("array")]
    [] out = "{\"projects\":[]}" -> [threw |-> FALSE, value |-> JsonValue("object")]
    [] out = "null" -> [threw |-> FALSE, value |-> JsonValue("null")]
    [] OTHER -> [threw |-> TRUE, value |-> NoValue]

\* String.prototype.trim on the stderr texts
Trim(s) == IF s = "  " THEN "" ELSE s

\* how a promise of the CLI bridge stands
NoMessage == <<>>
Pending == [state |-> "pending", value |-> NoValue, text |-> "", message |-> NoMessage]
ResolvedText(s) == [state |-> "fulfilled", value |-> NoValue, text |-> s, message |-> NoMessage]
ResolvedValue(v) == [state |-> "fulfilled", value |-> v, text |-> "", message |-> NoMessage]
RejectedWith(m) == [state |-> "rejected", value |-> NoValue, text |-> "", message |-> m]

\* new Error(`bs ${args.join(" ")}: ${msg}`), msg = stderr?.trim() || error.message
ProcessErrorMessage(args, error, stderr) ==
  <<"bs">> \o args \o <<":", IF Trim(stderr) # "" THEN Trim(stderr) ELSE error>>

\* new Error(`Failed to parse JSON from: bs ${args.join(" ")} --json`)
ParseErrorMessage(args) ==
  <<"Failed to parse JSON from:", "bs">> \o args \o <<"--json">>

\* the execFile callback of exec(args)
ExecCallback(args, error, stdout, stderr) ==
  IF error # "null" THEN RejectedWith(ProcessErrorMessage(args, error, stderr))
  ELSE ResolvedText(stdout)

\* try { return JSON.parse(out) } catch { throw new Error(...) }
ParseOrThrow_Rethrow(args, out) ==
  IF JsonParse(out).threw THEN RejectedWith(<<"SyntaxError">>)
  ELSE ResolvedValue(JsonParse(out).value)
ParseOrThrow(args, out) ==
  IF JsonParse(out).threw THEN RejectedWith(ParseErrorMessage(args))
  ELSE ResolvedValue(JsonParse(out).value)

\* exec(...).then(callback): a rejection of exec passes the callback by
ExecJSONThen(args, execPromise) ==
  IF execPromise.state = "rejected" THEN execPromise
  ELSE ParseOrThrow(args, execPromise.text)

NoProcess == [error |-> "null", stdout |-> "", stderr |-> ""]
NoQuery == [stage |-> "idle", args |-> <<>>, proc |-> NoProcess,
            execPromise |-> Pending, parsed |-> FALSE, promise |-> Pending]

\* ------------------------------------------------------------------ destroy()

\* what showWarningMessage resolves to: the one item, or undefined on dismissal
Confirms == {"Destroy", "undefined"}

NoCommand == <<>>
NotCalled == [pc |-> "idle", projectName |-> "", confirm |-> "undefined",
              terminal |-> FALSE, sent |-> NoCommand]

\* if (confirm !== "Destroy") { return; }
ConfirmedDestroy_Always(confirm) == TRUE
ConfirmedDestroy(confirm) == confirm = "Destroy"

\* terminal.sendText(`bs destroy ${projectName} --force`)
DestroyCommand(projectName) == <<"bs", "destroy", projectName, "--force">>

\* -------------------------------------------------------------- status bar

\* vscode.workspace.workspaceFolders?.[0]?.name: a project's folder, another
\* folder, no folder
WorkspaceNames == {"app", "web", ""}

\* a status bar text, tooltip or command, by the branch that wrote it
NotWritten == [kind |-> "undefined", name |-> "", status |-> "", url |-> "",
               live |-> 0, total |-> 0, lines |-> <<>>]
\* "$(rocket) Build & Ship", "No projects deployed. Click to deploy."
NoProjectsText == [NotWritten EXCEPT !.kind = "no projects"]
\* `$(rocket) ${currentProject.name} ${icon}`, icon by status === "live"
ProjectText(p) ==
  [NotWritten EXCEPT !.kind = "project", !.name = p.name,
                     !.status = IF p.status = "live" THEN "live" ELSE "not live"]
\* formatTooltip(currentProject): name, status, public_url when there is one
ProjectTooltip(p) ==
  [NotWritten EXCEPT !.kind = "project", !.name = p.name, !.status = p.status,
                     !.url = p.public_url]
\* projects.filter((p) => p.status === "live").length
LiveCount(projects) == Cardinality({i \in 1..Len(projects) : projects[i].status = "live"})
\* `$(rocket) B&S: ${liveCount}/${projects.length} live`
SummaryText(projects) ==
  [NotWritten EXCEPT !.kind = "summary", !.live = LiveCount(projects),
                     !.total = Len(projects)]
\* projects.map((p) => `${icon} ${p.name}`).join("\n")
SummaryTooltip(projects) ==
  [NotWritten EXCEPT !.kind = "summary",
     !.lines = [i \in 1..Len(projects) |->
                  <<IF projects[i].status = "live" THEN "live" ELSE "not live",
                    projects[i].name>>]]
\* the command of the item
PanelCommand == [NotWritten EXCEPT !.kind = "buildandship.showPanel"]
DeployCommand == [NotWritten EXCEPT !.kind = "buildandship.deploy"]
OpenUrlCommand(url) == [NotWritten EXCEPT !.kind = "vscode.open", !.url = url]

\* let statusBarItem: undefined until createStatusBar()
NoStatusBar == [item |-> FALSE, visible |-> FALSE, text |-> NotWritten,
                tooltip |-> NotWritten, command |-> NotWritten, error |-> FALSE,
                pending |-> 0]

\* what the user sees of the item
Display(bar) == [visible |-> bar.visible, text |-> bar.text, tooltip |-> bar.tooltip,
                 command |-> bar.command, error |-> bar.error]

\* projects.find((p) => p.name === workspaceName): its index, 0 for undefined
RECURSIVE FindProject(_, _, _)
FindProject(projects, name, i) ==
  IF i > Len(projects) THEN 0
  ELSE IF projects[i].name = name THEN i
  ELSE FindProject(projects, name, i + 1)

\* the try block of updateStatusBar after listProjects() resolved
Rendered(bar, projects, workspaceName) ==
  LET i == FindProject(projects, workspaceName, 1)
  IN IF Len(projects) = 0
       THEN [bar EXCEPT !.text = NoProjectsText, !.tooltip = NoProjectsText,
                        !.command = DeployCommand, !.visible = TRUE]
     ELSE IF i # 0
       THEN [bar EXCEPT !.text = ProjectText(projects[i]),
                        !.tooltip = ProjectTooltip(projects[i]),
                        !.error = (projects[i].status = "failed"),
                        !.command = IF projects[i].public_url # ""
                                      THEN OpenUrlCommand(projects[i].public_url)
                                      ELSE PanelCommand,
                        !.visible = TRUE]
     ELSE [bar EXCEPT !.text = SummaryText(projects), !.tooltip = SummaryTooltip(projects),
                      !.command = PanelCommand, !.visible = TRUE]

\* catch { statusBarItem.hide() }
AfterListFailure(bar) == [bar EXCEPT !.visible = FALSE]

\* the lists the status bar specification lets the CLI answer
StatusBarLists ==
  { <<>>,
    <<[name |-> "app", status |-> "live", public_url |-> "u1"]>>,
    <<[name |-> "app", status |-> "failed", public_url |-> ""]>>,
    <<[name |-> "api", status |-> "live", public_url |-> ""],
      [name |-> "app", status |-> "building", public_url |-> ""]>> }
StatusBarCliStates == [list : StatusBarLists, status : {<<>>}]

\* ------------------------------------------------------------------- auth

\* checkAuth() invocations made over the life of the extension: activation,
\* login(), logout()
MaxAuthRuns == 3
AuthRuns == 1..MaxAuthRuns

\* let _loggedIn = false; no checkAuth() invoked, nothing fired
NoAuthRuns == [loggedIn |-> FALSE,
               run |-> [r \in AuthRuns |-> [pc |-> "idle", wasLoggedIn |-> FALSE]],
               notified |-> <<>>]

\* if (wasLoggedIn !== _loggedIn) _onAuthChange.fire(_loggedIn)
FireOnChange(wasLoggedIn, loggedIn, notified) ==
  IF wasLoggedIn # loggedIn THEN Append(notified, loggedIn) ELSE notified

\* ---------------------------------------------------------------- sidebar

\* reload() invocations made over the life of the provider
MaxReloads == 3

\* new ProjectTreeProvider(): no projects, empty maps, nothing fired; nothing
\* in sidebar.ts ever adds to detailCache
EmptySidebar == [projects |-> <<>>, statusMap |-> NoEntries, detailCache |-> {},
                 fired |-> 0, reloads |-> 0, pending |-> 0, outcome |-> "none"]

\* what reload() stores
Stored(sb) == [projects |-> sb.projects, statusMap |-> sb.statusMap,
               detailCache |-> sb.detailCache]

\* reload() after Promise.all settled: rl and rs are the two settlements,
\* iterable tells whether the status answer has a projects array. The try
\* block assigns, clears, fills the status map and fires; a rejection, or the
\* TypeError of iterating a missing array, ends in the catch block.
Reloaded_AssignFirst(sb, rl, rs, iterable) ==
  IF rl.ok
    THEN [sb EXCEPT !.projects = rl.value, !.statusMap = NoEntries,
                    !.detailCache = {}, !.outcome = "failed"]
    ELSE [sb EXCEPT !.outcome = "failed"]
Reloaded(sb, rl, rs, iterable) ==
  IF ~(rl.ok /\ rs.ok) THEN [sb EXCEPT !.outcome = "failed"]
  ELSE IF ~iterable
    THEN [sb EXCEPT !.projects = rl.value, !.statusMap = NoEntries,
                    !.detailCache = {}, !.outcome = "threw"]
  ELSE [sb EXCEPT !.projects = rl.value, !.statusMap = StatusMapOf(rs.value),
                  !.detailCache = {}, !.fired = @ + 1, !.outcome = "replaced"]

\* ------------------------------------------------------------------ login()

\* setInterval(..., 2000)
PollIntervalMs == 2000
\* setTimeout(..., 5 * 60 * 1000)
LoginTimeoutMs == 300000
\* poll timer firings that fit before the timeout
MaxPolls == LoginTimeoutMs \div PollIntervalMs

\* login() not invoked
NoLogin == [pc |-> "idle", resolved |-> FALSE, pollOn |-> FALSE, polls |-> 0,
            inFlight |-> 0, timeoutArmed |-> FALSE, terminal |-> "none",
            resolvedBy |-> "none", queried |-> 0, queriedAtResolve |-> 0, run |-> 0]

\* resolved = true; clearInterval(poll); resolve(): the first resolve() settles
\* the wait, a later one does nothing
Resolve(lc, by) ==
  [lc EXCEPT !.resolved = TRUE, !.pollOn = FALSE,
             !.resolvedBy = IF lc.resolved THEN @ ELSE by,
             !.queriedAtResolve = IF lc.resolved THEN @ ELSE lc.queried]

\* the setTimeout callback: if (!resolved) { ... }
TimedOut_Ignored(lc) == lc
TimedOut(lc) == IF lc.resolved THEN lc ELSE Resolve(lc, "timeout")


\* ------------------------------------------------------------------- state

VARIABLES
  cli,                   \* what `bs list` and `bs status` would answer now
  pc,                    \* where each deploy() invocation is suspended or how it ended
  snapshot,              \* const snapshot of each invocation's startDeployWatcher
  tickCount,             \* let tickCount of each watcher
  alreadyFired,          \* let alreadyFired of each watcher
  timerOn,               \* the watcher's setInterval timer is registered and not cleared
  inFlight,              \* ticks of the watcher awaiting their Promise.all
  term,                  \* the deploy terminal each invocation created
  activeDeployTerminal,  \* 0 is undefined, else the invocation whose terminal it holds
  deployWatcherInterval, \* 0 is undefined, else the invocation whose timer it holds
  deployStatusItem,      \* TRUE while the status bar item exists
  onSuccess,             \* _onDeploySuccess
  onFailure,             \* _onDeployFailure
  calls,                 \* handler invocations made by each watcher's ticks
  queries,               \* rounds of list/status queries each watcher issued
  steady,                \* per session: projects live at the trigger and seen unchanged since
  lastEvent,             \* the most recent terminal event and what its handler found
  registered,            \* per kind, the handler passed last and the one it took the place of
  destroyCall,           \* each destroy() invocation: where it is and what it did
  jsonQuery,             \* one execJSON() call: its subprocess, exec's promise, its own
  statusBar,             \* statusBarItem and the updateStatusBar() calls awaiting listProjects()
  authState,             \* _loggedIn, the checkAuth() runs and what _onAuthChange fired last
  sidebar,               \* ProjectTreeProvider: projects, statusMap, detailCache, reloads
  loginCall              \* one login() invocation: its wait, its poll timer, its timeout

vars == <<cli, pc, snapshot, tickCount, alreadyFired, timerOn, inFlight, term,
          activeDeployTerminal, deployWatcherInterval, deployStatusItem,
          onSuccess, onFailure, calls, queries, steady, lastEvent, registered,
          destroyCall, jsonQuery, statusBar, authState, sidebar, loginCall>>

\* the state of statusbar.ts, auth.ts and sidebar.ts, which deploy.ts never touches
OtherViews == <<statusBar, authState, sidebar, loginCall>>

Handlers == {"h1"}
NoHandler == "undefined"

NoCalls == [success |-> 0, failure |-> 0]
NoneRegistered == [success |-> NoHandler, failure |-> NoHandler,
                   successBefore |-> NoHandler, failureBefore |-> NoHandler]
NeverFired == [session |-> 0, kind |-> "none", name |-> "", url |-> "",
               handler |-> NoHandler, sawTimer |-> FALSE, sawItem |-> FALSE]

\* module load: every module-level let is undefined, nothing has been invoked
Init ==
  /\ cli \in RaceCliStates
  /\ pc = [d \in Deploys |-> "idle"]
  /\ snapshot = [d \in Deploys |-> NoEntries]
  /\ tickCount = [d \in Deploys |-> 0]
  /\ alreadyFired = [d \in Deploys |-> FALSE]
  /\ timerOn = [d \in Deploys |-> FALSE]
  /\ inFlight = [d \in Deploys |-> 0]
  /\ term = [d \in Deploys |-> "none"]
  /\ activeDeployTerminal = 0
  /\ deployWatcherInterval = 0
  /\ deployStatusItem = FALSE
  /\ onSuccess = NoHandler
  /\ onFailure = NoHandler
  /\ calls = [d \in Deploys |-> NoCalls]
  /\ queries = [d \in Deploys |-> 0]
  /\ steady = [d \in Deploys |-> [n \in Names |-> ""]]
  /\ lastEvent = NeverFired
  /\ registered = NoneRegistered
  /\ destroyCall = [i \in Destroys |-> NotCalled]
  /\ jsonQuery = NoQuery
  /\ statusBar = NoStatusBar
  /\ authState = NoAuthRuns
  /\ sidebar = EmptySidebar
  /\ loginCall = NoLogin

\* -------------------------------------------------------------- environment

\* the deploy CLI's state moves on (a build starts, ends, a URL is assigned)
CliChanges(W) ==
  /\ cli' \in W \ {cli}
  /\ UNCHANGED <<pc, snapshot, tickCount, alreadyFired, timerOn, inFlight, term,
                 activeDeployTerminal, deployWatcherInterval, deployStatusItem,
                 onSuccess, onFailure, calls, queries, steady, lastEvent, registered, destroyCall, jsonQuery, OtherViews>>

\* ---------------------------------------------------------------- handlers

\* activate() registers its handlers before the deploy command can run
BeforeFirstDeploy == \A d \in Deploys : pc[d] = "idle"

\* onDeploySuccess(handler)
RegisterSuccess_FirstWins(h) ==
  /\ onSuccess' = IF onSuccess = NoHandler THEN h ELSE onSuccess
  /\ registered' = [registered EXCEPT
       !.success = h,
       !.successBefore = IF registered.success # h THEN registered.success ELSE @]
  /\ UNCHANGED <<cli, pc, snapshot, tickCount, alreadyFired, timerOn, inFlight, term,
                 activeDeployTerminal, deployWatcherInterval, deployStatusItem,
                 onFailure, calls, queries, steady, lastEvent, destroyCall, jsonQuery, OtherViews>>
RegisterSuccess(h) ==
  /\ onSuccess' = h
  /\ registered' = [registered EXCEPT
       !.success = h,
       !.successBefore = IF registered.success # h THEN registered.success ELSE @]
  /\ UNCHANGED <<cli, pc, snapshot, tickCount, alreadyFired, timerOn, inFlight, term,
                 activeDeployTerminal, deployWatcherInterval, deployStatusItem,
                 onFailure, calls, queries, steady, lastEvent, destroyCall, jsonQuery, OtherViews>>

\* onDeployFailure(handler)
RegisterFailure(h) ==
  /\ onFailure' = h
  /\ registered' = [registered EXCEPT
       !.failure = h,
       !.failureBefore = IF registered.failure # h THEN registered.failure ELSE @]
  /\ UNCHANGED <<cli, pc, snapshot, tickCount, alreadyFired, timerOn, inFlight, term,
                 activeDeployTerminal, deployWatcherInterval, deployStatusItem,
                 onSuccess, calls, queries, steady, lastEvent, destroyCall, jsonQuery, OtherViews>>

\* ------------------------------------------------------ timer and indicator

\* clearInterval(deployWatcherInterval) inside stopDeployWatcher: the timers left
StoppedTimers(timers, held) ==
  IF held # 0 THEN [timers EXCEPT ![held] = FALSE] ELSE timers

\* stopDeployWatcher(); deployWatcherInterval = setInterval(...)
RegisterTimer_NoStop(timers, held, d) == [timers EXCEPT ![d] = TRUE]
RegisterTimer(timers, held, d) == [StoppedTimers(timers, held) EXCEPT ![d] = TRUE]

\* stopDeployWatcher() as the whole effect of a step on the timer state
StopDeployWatcher ==
  /\ timerOn' = StoppedTimers(timerOn, deployWatcherInterval)
  /\ deployWatcherInterval' = 0

\* if (tickCount > maxTicks || alreadyFired)
CeilingReached_Never(n) == FALSE
CeilingReached_OffByOne(n) == n >= maxTicks
CeilingReached(n) == n > maxTicks

\* ------------------------------------------------------------------ deploy()

\* vscode.window.terminals.includes(t): listed until its close is delivered
StillAlive(d) == term[d] \in {"open", "disposed"}

\* if (activeDeployTerminal) { if (stillAlive) dispose(); activeDeployTerminal = undefined }
\* then startDeployWatcher() issues the two snapshot queries and suspends
PreflightPassed_LaunchFirst(d) ==
  /\ term' = [term EXCEPT ![d] = "open"]
  /\ activeDeployTerminal' = d
  /\ pc' = [pc EXCEPT ![d] = "snapshot"]
PreflightPassed(d) ==
  /\ term' = IF activeDeployTerminal # 0 /\ StillAlive(activeDeployTerminal)
               THEN [term EXCEPT ![activeDeployTerminal] = "disposed"]
               ELSE term
  /\ activeDeployTerminal' = 0
  /\ pc' = [pc EXCEPT ![d] = "snapshot"]

\* the variables no pre-flight step of deploy() touches
PreflightFrame ==
  UNCHANGED <<cli, snapshot, tickCount, alreadyFired, timerOn, inFlight,
              deployWatcherInterval, deployStatusItem, onSuccess, onFailure,
              calls, queries, steady, lastEvent, registered, destroyCall, jsonQuery, OtherViews>>

\* deploy() is called: the workspace folder check, then isCliInstalled() is awaited
DeployCall_CleanupFirst(d) ==
  /\ pc[d] = "idle"
  /\ \A e \in Deploys : e < d => pc[e] # "idle"
  /\ \E folder \in BOOLEAN :
       pc' = [pc EXCEPT ![d] = IF folder THEN "cli" ELSE "noFolder"]
  /\ term' = IF activeDeployTerminal # 0 /\ StillAlive(activeDeployTerminal)
               THEN [term EXCEPT ![activeDeployTerminal] = "disposed"]
               ELSE term
  /\ activeDeployTerminal' = 0
  /\ PreflightFrame
DeployCall(d) ==
  /\ pc[d] = "idle"
  /\ \A e \in Deploys : e < d => pc[e] # "idle"
  /\ \E folder \in BOOLEAN :
       pc' = [pc EXCEPT ![d] = IF folder THEN "cli" ELSE "noFolder"]
  /\ UNCHANGED <<term, activeDeployTerminal>>
  /\ PreflightFrame

\* isCliInstalled() settles: install command, or isLoggedIn() is awaited
CliChecked(d) ==
  /\ pc[d] = "cli"
  /\ \E cliOk \in BOOLEAN :
       pc' = [pc EXCEPT ![d] = IF cliOk THEN "auth" ELSE "install"]
  /\ UNCHANGED <<term, activeDeployTerminal>>
  /\ PreflightFrame

\* executeCommand("buildandship.installCli") settles: return
InstallReturned_Continues(d) ==
  /\ pc[d] = "install"
  /\ pc' = [pc EXCEPT ![d] = "auth"]
  /\ UNCHANGED <<term, activeDeployTerminal>>
  /\ PreflightFrame
InstallReturned(d) ==
  /\ pc[d] = "install"
  /\ pc' = [pc EXCEPT ![d] = "noCli"]
  /\ UNCHANGED <<term, activeDeployTerminal>>
  /\ PreflightFrame

\* the first isLoggedIn() settles
AuthChecked(d) ==
  /\ pc[d] = "auth"
  /\ \E authed \in BOOLEAN :
       IF authed
         THEN PreflightPassed(d)
         ELSE /\ pc' = [pc EXCEPT ![d] = "login"]
              /\ UNCHANGED <<term, activeDeployTerminal>>
  /\ PreflightFrame

\* executeCommand("buildandship.login") settles: isLoggedIn() is awaited again
LoginReturned(d) ==
  /\ pc[d] = "login"
  /\ pc' = [pc EXCEPT ![d] = "reauth"]
  /\ UNCHANGED <<term, activeDeployTerminal>>
  /\ PreflightFrame

\* the second isLoggedIn() settles
ReauthChecked(d) ==
  /\ pc[d] = "reauth"
  /\ \E nowAuthed \in BOOLEAN :
       IF nowAuthed
         THEN PreflightPassed(d)
         ELSE /\ pc' = [pc EXCEPT ![d] = "noAuth"]
              /\ UNCHANGED <<term, activeDeployTerminal>>
  /\ PreflightFrame

\* the URL a project is live under in a merged view, "" when it is not live
LiveUrl(view, n) ==
  IF view[n].present /\ view[n].status = "live" THEN view[n].url ELSE ""

\* Both snapshot queries have settled. startDeployWatcher builds the snapshot,
\* clears the held timer and registers its own; deploy() resumes in the same
\* turn: createTerminal, sendText("bs deploy"), showDeployProgress, and the
\* close listener.
SnapshotSettled(d, mayReject) ==
  /\ pc[d] = "snapshot"
  /\ \E rl \in Settled(cli.list, mayReject), rs \in Settled(cli.status, mayReject) :
       snapshot' = [snapshot EXCEPT ![d] =
                      BuildSnapshot(ListOrEmpty(rl), StatusOrEmpty(rs))]
  /\ steady' = [steady EXCEPT ![d] =
                  [n \in Names |-> LiveUrl(BuildSnapshot(cli.list, cli.status), n)]]
  /\ tickCount' = [tickCount EXCEPT ![d] = 0]
  /\ alreadyFired' = [alreadyFired EXCEPT ![d] = FALSE]
  /\ timerOn' = RegisterTimer(timerOn, deployWatcherInterval, d)
  /\ deployWatcherInterval' = d
  /\ term' = [term EXCEPT ![d] = "open"]
  /\ activeDeployTerminal' = d
  /\ deployStatusItem' = TRUE
  /\ pc' = [pc EXCEPT ![d] = "launched"]
  /\ UNCHANGED <<cli, inFlight, onSuccess, onFailure, calls, queries, lastEvent, registered, destroyCall, jsonQuery, OtherViews>>

\* --------------------------------------------------------- terminal closing

\* onDidCloseTerminal listener of invocation d, for t === terminal
CloseListener(d) ==
  /\ term' = [term EXCEPT ![d] = "closed"]
  /\ activeDeployTerminal' = 0
  /\ StopDeployWatcher
  /\ deployStatusItem' = FALSE
  /\ UNCHANGED <<cli, pc, snapshot, tickCount, alreadyFired, inFlight,
                 onSuccess, onFailure, calls, queries, steady, lastEvent, registered, destroyCall, jsonQuery, OtherViews>>

\* the user closes the deploy terminal
UserClosesTerminal(d) ==
  /\ term[d] = "open"
  /\ CloseListener(d)

\* the close of a terminal that deploy() disposed is delivered
DisposedTerminalCloses(d) ==
  /\ term[d] = "disposed"
  /\ CloseListener(d)

\* ------------------------------------------------------- the interval callback

RECURSIVE TicksUpTo(_)
TicksUpTo(d) == IF d = 0 THEN 0 ELSE tickCount[d] + TicksUpTo(d - 1)
\* timer firings so far, over all watchers
TotalTicks == TicksUpTo(MaxDeploys)

\* The timer of watcher d fires: tickCount++, then either the stop branch or
\* the two queries are issued and the callback suspends on Promise.all.
TimerFires(d, cap) ==
  /\ timerOn[d]
  /\ TotalTicks < cap
  /\ tickCount' = [tickCount EXCEPT ![d] = @ + 1]
  /\ IF CeilingReached(tickCount[d] + 1) \/ alreadyFired[d]
       THEN /\ StopDeployWatcher
            /\ UNCHANGED <<inFlight, queries>>
       ELSE /\ inFlight[d] < MaxInFlight
            /\ inFlight' = [inFlight EXCEPT ![d] = @ + 1]
            /\ queries' = [queries EXCEPT ![d] = @ + 1]
            /\ UNCHANGED <<timerOn, deployWatcherInterval>>
  /\ UNCHANGED <<cli, pc, snapshot, alreadyFired, term, activeDeployTerminal,
                 deployStatusItem, onSuccess, onFailure, calls, steady, lastEvent, registered, destroyCall, jsonQuery, OtherViews>>

\* the tick reads the snapshot with snapshot.get and never writes it
SnapshotAfterTick_Rebase(snap, projects, status) == BuildSnapshot(projects, status)
SnapshotAfterTick(snap, projects, status) == snap

\* the handler runs after stopDeployWatcher() and clearDeployProgress():
\* what it finds is what they left
AtHandlerCall_BeforeCleanup(before, after) == before
AtHandlerCall(before, after) == after

\* the handler a terminal event calls, if one is registered
HandlerFor_SuccessOnly(kind) ==
  IF kind = "success" THEN onSuccess ELSE NoHandler
HandlerFor(kind) ==
  IF kind = "success" THEN onSuccess
  ELSE IF kind = "failure" THEN onFailure
  ELSE NoHandler

\* The continuation of one tick after its Promise.all: the for loop over
\* projects, and on the first match alreadyFired = true, stopDeployWatcher(),
\* clearDeployProgress() and the handler.
TickContinuation(d, projects, status) ==
  LET ev == EvaluateTick(projects, status, snapshot[d])
      seen == BuildSnapshot(projects, status)
      handler == HandlerFor(ev.kind)
      timersAfter == StoppedTimers(timerOn, deployWatcherInterval)
  IN /\ inFlight' = [inFlight EXCEPT ![d] = @ - 1]
     /\ snapshot' = [snapshot EXCEPT ![d] = SnapshotAfterTick(@, projects, status)]
     /\ steady' = [steady EXCEPT ![d] =
                     [n \in Names |-> IF LiveUrl(seen, n) = @[n] THEN @[n] ELSE ""]]
     /\ IF ev.kind = "none"
          THEN UNCHANGED <<alreadyFired, timerOn, deployWatcherInterval,
                           deployStatusItem, calls, lastEvent>>
          ELSE /\ alreadyFired' = [alreadyFired EXCEPT ![d] = TRUE]
               /\ timerOn' = timersAfter
               /\ deployWatcherInterval' = 0
               /\ deployStatusItem' = FALSE
               /\ calls' = IF handler = NoHandler THEN calls
                           ELSE [calls EXCEPT ![d][ev.kind] = @ + 1]
               /\ lastEvent' = [session |-> d, kind |-> ev.kind, name |-> ev.name,
                                url |-> ev.url, handler |-> handler,
                                sawTimer |-> AtHandlerCall(timerOn[d], timersAfter[d]),
                                sawItem |-> AtHandlerCall(deployStatusItem, FALSE)]
     /\ UNCHANGED <<cli, pc, tickCount, term, activeDeployTerminal,
                    onSuccess, onFailure, queries, registered, destroyCall, jsonQuery, OtherViews>>

\* Promise.all of one in-flight tick settles: each query delivered the CLI's
\* answer, or rejected and was replaced by the empty answer.
TickResolves(d, mayReject) ==
  /\ inFlight[d] > 0
  /\ \E rl \in Settled(cli.list, mayReject), rs \in Settled(cli.status, mayReject) :
       TickContinuation(d, ListOrEmpty(rl), StatusOrEmpty(rs))

\* ---------------------------------------------------------------- destroy()

\* the variables destroy() and execJSON() do not touch
DeployState == <<cli, pc, snapshot, tickCount, alreadyFired, timerOn, inFlight, term,
                 activeDeployTerminal, deployWatcherInterval, deployStatusItem,
                 onSuccess, onFailure, calls, queries, steady, lastEvent, registered>>

\* destroy(projectName) is called: the modal warning is shown and awaited
DestroyCall(i, projectName) ==
  /\ destroyCall[i].pc = "idle"
  /\ \A j \in Destroys : j < i => destroyCall[j].pc # "idle"
  /\ destroyCall' = [destroyCall EXCEPT ![i] =
                       [@ EXCEPT !.pc = "confirm", !.projectName = projectName]]
  /\ UNCHANGED <<DeployState, jsonQuery, OtherViews>>

\* the modal settles: return, or createTerminal and sendText
ConfirmReturned(i) ==
  /\ destroyCall[i].pc = "confirm"
  /\ \E confirm \in Confirms :
       destroyCall' = [destroyCall EXCEPT ![i] =
         IF ConfirmedDestroy(confirm)
           THEN [@ EXCEPT !.pc = "returned", !.confirm = confirm, !.terminal = TRUE,
                          !.sent = DestroyCommand(destroyCall[i].projectName)]
           ELSE [@ EXCEPT !.pc = "returned", !.confirm = confirm]]
  /\ UNCHANGED <<DeployState, jsonQuery, OtherViews>>

\* ---------------------------------------------------------------- execJSON()

\* execJSON(args): exec([...args, "--json"]) spawns the subprocess
ExecJSONCall(args) ==
  /\ jsonQuery.stage = "idle"
  /\ jsonQuery' = [jsonQuery EXCEPT !.stage = "running", !.args = args]
  /\ UNCHANGED <<DeployState, destroyCall, OtherViews>>

\* the subprocess ends (or is killed at the timeout): execFile calls back
ProcessExits ==
  /\ jsonQuery.stage = "running"
  /\ \E error \in ProcErrors, stdout \in Stdouts, stderr \in Stderrs :
       jsonQuery' = [jsonQuery EXCEPT
         !.stage = "execSettled",
         !.proc = [error |-> error, stdout |-> stdout, stderr |-> stderr],
         !.execPromise = ExecCallback(Append(jsonQuery.args, "--json"),
                                      error, stdout, stderr)]
  /\ UNCHANGED <<DeployState, destroyCall, OtherViews>>

\* the reaction of .then to exec's promise: the callback runs on fulfilment only
ThenSettles ==
  /\ jsonQuery.stage = "execSettled"
  /\ jsonQuery' = [jsonQuery EXCEPT
       !.stage = "settled",
       !.parsed = (jsonQuery.execPromise.state = "fulfilled"),
       !.promise = ExecJSONThen(jsonQuery.args, jsonQuery.execPromise)]
  /\ UNCHANGED <<DeployState, destroyCall, OtherViews>>

\* Promise.all of one in-flight tick settles with both queries rejected
TickFails(d) ==
  /\ inFlight[d] > 0
  /\ TickContinuation(d, ListOrEmpty(Rejected), StatusOrEmpty(Rejected))

\* ---------------------------------------------------------------- checkAuth()

\* the variables checkAuth() does not touch
AuthFrame ==
  UNCHANGED <<DeployState, destroyCall, jsonQuery, statusBar, sidebar, loginCall>>

\* checkAuth() is called: wasLoggedIn is captured, isCliInstalled() is awaited
CheckAuthCall(r) ==
  /\ authState.run[r].pc = "idle"
  /\ \A q \in AuthRuns : q < r => authState.run[q].pc # "idle"
  /\ authState' = [authState EXCEPT
       !.run[r] = [pc |-> "isCliInstalled", wasLoggedIn |-> authState.loggedIn]]
  /\ AuthFrame

\* isCliInstalled() settles: without the CLI _loggedIn = false, then the awaited
\* setContext calls
CliInstalledSettles(r) ==
  /\ authState.run[r].pc = "isCliInstalled"
  /\ \E installed \in BOOLEAN :
       authState' = IF installed
                      THEN [authState EXCEPT !.run[r].pc = "setInstalled"]
                      ELSE [authState EXCEPT !.loggedIn = FALSE,
                                             !.run[r].pc = "setMissing"]
  /\ AuthFrame

\* _loggedIn = await isLoggedIn(): the flag is written when the query settles,
\* then setContext is awaited
IsLoggedInSettles(r) ==
  /\ authState.run[r].pc = "isLoggedIn"
  /\ \E authed \in BOOLEAN :
       authState' = [authState EXCEPT !.loggedIn = authed,
                                      !.run[r].pc = "setLoggedIn"]
  /\ AuthFrame

\* ------------------------------------------------------------------- login()

\* the variables the wait of login() does not touch
LoginFrame ==
  UNCHANGED <<DeployState, destroyCall, jsonQuery, statusBar, sidebar, authState>>

\* login() is called: the terminal, `bs login`, the poll timer, the close
\* listener and the timeout
LoginCall ==
  /\ loginCall.pc = "idle"
  /\ loginCall' = [loginCall EXCEPT !.pc = "waiting", !.pollOn = TRUE,
                                     !.timeoutArmed = TRUE, !.terminal = "open"]
  /\ LoginFrame

\* the poll timer fires: if (resolved) return, else isLoggedIn() is awaited.
\* The timeout is due once MaxPolls firings have had their time.
PollFires ==
  /\ loginCall.pollOn
  /\ loginCall.polls < MaxPolls
  /\ IF loginCall.resolved
       THEN loginCall' = [loginCall EXCEPT !.polls = @ + 1]
       ELSE /\ loginCall.inFlight < MaxInFlight
            /\ loginCall' = [loginCall EXCEPT !.polls = @ + 1, !.inFlight = @ + 1,
                                               !.queried = @ + 1]
  /\ LoginFrame

\* isLoggedIn() of one poll settles: if (authed) { resolved = true; ... }
PollSettles(authed) ==
  /\ loginCall.inFlight > 0
  /\ loginCall' = [(IF authed THEN Resolve(loginCall, "poll") ELSE loginCall)
                   EXCEPT !.inFlight = @ - 1]
  /\ LoginFrame

\* onDidCloseTerminal for the login terminal: if (t === terminal && !resolved)
LoginTerminalCloses ==
  /\ loginCall.terminal = "open"
  /\ loginCall' = [(IF loginCall.resolved THEN loginCall ELSE Resolve(loginCall, "close"))
                   EXCEPT !.terminal = "closed"]
  /\ LoginFrame

\* the timeout fires, five minutes after login() was called: after the last
\* poll firing before it or the one due at the same time, or with the poll
\* timer already cleared
TimeoutFires ==
  /\ loginCall.timeoutArmed
  /\ loginCall.polls >= MaxPolls - 1 \/ ~loginCall.pollOn
  /\ loginCall' = [TimedOut(loginCall) EXCEPT !.timeoutArmed = FALSE]
  /\ LoginFrame

\* the wait has resolved: login() resumes and calls checkAuth(), which runs to
\* its first await
LoginWaitResumes(r) ==
  /\ loginCall.pc = "waiting"
  /\ loginCall.resolved
  /\ authState.run[r].pc = "idle"
  /\ \A q \in AuthRuns : q < r => authState.run[q].pc # "idle"
  /\ loginCall' = [loginCall EXCEPT !.pc = "checkAuth", !.run = r]
  /\ authState' = [authState EXCEPT
       !.run[r] = [pc |-> "isCliInstalled", wasLoggedIn |-> authState.loggedIn]]
  /\ UNCHANGED <<DeployState, destroyCall, jsonQuery, statusBar, sidebar>>

\* checkAuth() returned: the message if _loggedIn, and login() returns
LoginReturns ==
  /\ loginCall.pc = "checkAuth"
  /\ authState.run[loginCall.run].pc = "returned"
  /\ loginCall' = [loginCall EXCEPT !.pc = "returned"]
  /\ LoginFrame

\* an awaited setContext command returns: the next await, or the comparison
\* of wasLoggedIn with the flag as it is now, the notification and the return
SetContextReturns(r) ==
  /\ authState.run[r].pc \in {"setInstalled", "setMissing", "setLoggedOut", "setLoggedIn"}
  /\ authState' =
       CASE authState.run[r].pc = "setInstalled" ->
              [authState EXCEPT !.run[r].pc = "isLoggedIn"]
         [] authState.run[r].pc = "setMissing" ->
              [authState EXCEPT !.run[r].pc = "setLoggedOut"]
         [] OTHER ->
              [authState EXCEPT
                 !.run[r].pc = "returned",
                 !.notified = FireOnChange(authState.run[r].wasLoggedIn,
                                           authState.loggedIn, @)]
  /\ AuthFrame

\* ------------------------------------------------------------------- reload()

\* the variables reload() does not touch
SidebarFrame ==
  UNCHANGED <<DeployState, destroyCall, jsonQuery, statusBar, authState, loginCall>>

\* reload() is called, by the refresh timer, getChildren or a command:
\* listProjects() and statusAll() are issued and Promise.all is awaited
ReloadCall ==
  /\ sidebar.reloads < MaxReloads
  /\ sidebar.pending < MaxInFlight
  /\ sidebar' = [sidebar EXCEPT !.reloads = @ + 1, !.pending = @ + 1]
  /\ SidebarFrame

\* Promise.all of one reload() settles
ReloadSettles(rl, rs, iterable) ==
  /\ sidebar.pending > 0
  /\ sidebar' = [Reloaded(sidebar, rl, rs, iterable) EXCEPT !.pending = @ - 1]
  /\ SidebarFrame

\* ------------------------------------------------------------ updateStatusBar()

\* the variables updateStatusBar() does not touch
StatusBarFrame ==
  UNCHANGED <<DeployState, destroyCall, jsonQuery, authState, sidebar, loginCall>>

\* updateStatusBar() up to its await: no item, hidden by configuration, or
\* listProjects() is issued
UpdateCalled(bar) ==
  IF ~bar.item THEN {bar}
  ELSE {[bar EXCEPT !.visible = FALSE]}
       \cup {[bar EXCEPT !.pending = @ + 1] : x \in {y \in {1} : bar.pending < MaxInFlight}}

\* createStatusBar(): the item, its command, the first updateStatusBar(), the
\* refresh timer
CreateStatusBar ==
  /\ ~statusBar.item
  /\ statusBar' \in UpdateCalled([statusBar EXCEPT !.item = TRUE, !.command = PanelCommand])
  /\ StatusBarFrame

\* updateStatusBar() is called: by the refresh timer, a handler, a command
UpdateStatusBar ==
  /\ statusBar.item
  /\ statusBar' \in UpdateCalled(statusBar)
  /\ StatusBarFrame

\* listProjects() of one updateStatusBar() call settles
StatusBarListSettles(r) ==
  /\ statusBar.pending > 0
  /\ \E workspaceName \in WorkspaceNames :
       statusBar' = [(IF r.ok THEN Rendered(statusBar, r.value, workspaceName)
                      ELSE AfterListFailure(statusBar))
                     EXCEPT !.pending = @ - 1]
  /\ StatusBarFrame

\* ----------------------------------------------------------- specifications

\* every interleaving of deploy() invocations, timers, ticks and terminal closes
Next ==
  \/ CliChanges(RaceCliStates)
  \/ \E h \in Handlers : BeforeFirstDeploy /\ RegisterSuccess(h)
  \/ \E h \in Handlers : BeforeFirstDeploy /\ RegisterFailure(h)
  \/ \E d \in Deploys : DeployCall(d)
  \/ \E d \in Deploys : CliChecked(d)
  \/ \E d \in Deploys : InstallReturned(d)
  \/ \E d \in Deploys : AuthChecked(d)
  \/ \E d \in Deploys : LoginReturned(d)
  \/ \E d \in Deploys : ReauthChecked(d)
  \/ \E d \in Deploys : SnapshotSettled(d, TRUE)
  \/ \E d \in Deploys : TimerFires(d, TickCap)
  \/ \E d \in Deploys : TickResolves(d, TRUE)
  \/ \E d \in Deploys : UserClosesTerminal(d)
  \/ \E d \in Deploys : DisposedTerminalCloses(d)

Spec == Init /\ [][Next]_vars

\* One session, launched, with its handlers registered: the state deploy()
\* leaves when its snapshot queries delivered the snapshot snap.
Launched(snap) ==
  /\ pc = [d \in Deploys |-> IF d = 1 THEN "launched" ELSE "idle"]
  /\ snapshot = [d \in Deploys |-> IF d = 1 THEN snap ELSE NoEntries]
  /\ tickCount = [d \in Deploys |-> 0]
  /\ alreadyFired = [d \in Deploys |-> FALSE]
  /\ timerOn = [d \in Deploys |-> d = 1]
  /\ inFlight = [d \in Deploys |-> 0]
  /\ term = [d \in Deploys |-> IF d = 1 THEN "open" ELSE "none"]
  /\ activeDeployTerminal = 1
  /\ deployWatcherInterval = 1
  /\ deployStatusItem = TRUE
  /\ onSuccess = "h1"
  /\ onFailure = "h1"
  /\ calls = [d \in Deploys |-> NoCalls]
  /\ queries = [d \in Deploys |-> 0]
  /\ steady = [d \in Deploys |-> [n \in Names |-> IF d = 1 THEN LiveUrl(snap, n) ELSE ""]]
  /\ lastEvent = NeverFired
  /\ registered = [NoneRegistered EXCEPT !.success = "h1", !.failure = "h1"]
  /\ destroyCall = [i \in Destroys |-> NotCalled]
  /\ jsonQuery = NoQuery
  /\ statusBar = NoStatusBar
  /\ authState = NoAuthRuns
  /\ sidebar = EmptySidebar
  /\ loginCall = NoLogin

\* One poll tick of a launched session, for every snapshot and every answer of
\* the CLI: the diff rules as a function of (list, status, snapshot).
InitEval ==
  /\ cli \in CliStates
  /\ \E snap \in Snapshots : Launched(snap)

NextEval ==
  \/ TimerFires(1, 1)
  \/ TickResolves(1, FALSE)

SpecEval == InitEval /\ [][NextEval]_vars

\* One launched session polled up to its tick ceiling, its terminal left open.
InitCeiling ==
  /\ cli \in RaceCliStates
  /\ \E c \in RaceCliStates : Launched(BuildSnapshot(c.list, c.status))

NextCeiling ==
  \/ CliChanges(RaceCliStates)
  \/ TimerFires(1, maxTicks + 2)
  \/ TickResolves(1, TRUE)

SpecCeiling == InitCeiling /\ [][NextCeiling]_vars

\* the handlers a client of deploy.ts may pass to the registration functions
AllHandlers == {"h1", "h2"}

\* One deploy() invocation from module load on, its handlers registered and
\* registered again at any time, its terminal closed by the user at any time.
NextSession ==
  \/ CliChanges(RaceCliStates)
  \/ \E h \in AllHandlers : RegisterSuccess(h)
  \/ \E h \in AllHandlers : RegisterFailure(h)
  \/ DeployCall(1)
  \/ CliChecked(1)
  \/ InstallReturned(1)
  \/ AuthChecked(1)
  \/ LoginReturned(1)
  \/ ReauthChecked(1)
  \/ SnapshotSettled(1, TRUE)
  \/ TimerFires(1, TickCap)
  \/ TickResolves(1, TRUE)
  \/ UserClosesTerminal(1)

SpecSession == Init /\ [][NextSession]_vars

\* destroy() invocations, each for any project and with any answer to its prompt
NextDestroy ==
  \/ \E i \in Destroys, n \in Names : DestroyCall(i, n)
  \/ \E i \in Destroys : ConfirmReturned(i)

SpecDestroy == Init /\ [][NextDestroy]_vars

\* one JSON query of the CLI bridge, for every way its subprocess can end
NextJson ==
  \/ \E args \in QueryArgs : ExecJSONCall(args)
  \/ ProcessExits
  \/ ThenSettles

SpecJson == Init /\ [][NextJson]_vars

\* One launched session polled up to its tick ceiling while the CLI cannot be
\* queried: every poll query of every tick rejects.
NextOutage ==
  \/ CliChanges(RaceCliStates)
  \/ TimerFires(1, maxTicks + 2)
  \/ TickFails(1)

SpecOutage == InitCeiling /\ [][NextOutage]_vars

\* the answers the CLI moves through while a launched session is polled: the
\* answers in which the two queries disagree or list different projects
MergeCliStates ==
  { [list |-> <<[name |-> "app", status |-> "", public_url |-> ""]>>,
     status |-> <<[name |-> "app", status |-> "live", url |-> "u1"]>>],
    [list |-> <<[name |-> "app", status |-> "building", public_url |-> "u2"]>>,
     status |-> <<[name |-> "app", status |-> "live", url |-> "u1"]>>],
    [list |-> <<[name |-> "app", status |-> "live", public_url |-> ""]>>,
     status |-> <<[name |-> "api", status |-> "live", url |-> "u1"]>>],
    [list |-> <<[name |-> "app", status |-> "", public_url |-> ""]>>,
     status |-> <<[name |-> "app", status |-> "failed", url |-> ""]>>],
    [list |-> <<>>,
     status |-> <<[name |-> "api", status |-> "live", url |-> "u1"]>>],
    [list |-> <<[name |-> "api", status |-> "live", public_url |-> "u1"],
                [name |-> "app", status |-> "", public_url |-> ""]>>,
     status |-> <<[name |-> "app", status |-> "live", url |-> "u1"]>>] }

\* One deploy() from module load to its first poll tick, no query rejecting:
\* the CLI holds any answer when the snapshot is taken and moves through the
\* answers above while the session is polled.
NextMerge ==
  \/ CliChanges(IF pc[1] = "idle" /\ cli \in RaceCliStates THEN CliStates
                ELSE MergeCliStates)
  \/ DeployCall(1)
  \/ CliChecked(1)
  \/ AuthChecked(1)
  \/ SnapshotSettled(1, FALSE)
  \/ TimerFires(1, 1)
  \/ TickResolves(1, FALSE)

SpecMerge == Init /\ [][NextMerge]_vars

\* The first session at the moment a second deploy() has passed its pre-flight
\* checks: the first terminal disposed, the handle unset, the second snapshot
\* queries awaited, the first watcher still polling.
Restarting(snap) ==
  /\ pc = [d \in Deploys |-> IF d = 1 THEN "launched"
                              ELSE IF d = 2 THEN "snapshot" ELSE "idle"]
  /\ snapshot = [d \in Deploys |-> IF d = 1 THEN snap ELSE NoEntries]
  /\ tickCount = [d \in Deploys |-> 0]
  /\ alreadyFired = [d \in Deploys |-> FALSE]
  /\ timerOn = [d \in Deploys |-> d = 1]
  /\ inFlight = [d \in Deploys |-> 0]
  /\ term = [d \in Deploys |-> IF d = 1 THEN "disposed" ELSE "none"]
  /\ activeDeployTerminal = 0
  /\ deployWatcherInterval = 1
  /\ deployStatusItem = TRUE
  /\ onSuccess = "h1"
  /\ onFailure = "h1"
  /\ calls = [d \in Deploys |-> NoCalls]
  /\ queries = [d \in Deploys |-> 0]
  /\ steady = [d \in Deploys |-> [n \in Names |-> IF d = 1 THEN LiveUrl(snap, n) ELSE ""]]
  /\ lastEvent = NeverFired
  /\ registered = [NoneRegistered EXCEPT !.success = "h1", !.failure = "h1"]
  /\ destroyCall = [i \in Destroys |-> NotCalled]
  /\ jsonQuery = NoQuery
  /\ statusBar = NoStatusBar
  /\ authState = NoAuthRuns
  /\ sidebar = EmptySidebar
  /\ loginCall = NoLogin

\* the snapshot queries of a restart answer within this many ticks of the
\* watcher they supersede
RestartBy == 2

\* One watcher from its start to the clearing of its timer: polled to the
\* ceiling, its terminal closed at any time, or superseded by the watcher of a
\* second deploy. setInterval keeps firing the callback while the timer is
\* set, and exec settles every query within its timeout: both are weakly fair.
InitWatcher ==
  /\ cli \in RaceCliStates
  /\ \E c \in RaceCliStates :
       \/ Launched(BuildSnapshot(c.list, c.status))
       \/ Restarting(BuildSnapshot(c.list, c.status))

NextWatcher ==
  \/ CliChanges(RaceCliStates)
  \/ TimerFires(1, maxTicks + 2)
  \/ TickResolves(1, TRUE)
  \/ UserClosesTerminal(1)
  \/ DisposedTerminalCloses(1)
  \/ tickCount[1] <= RestartBy /\ SnapshotSettled(2, TRUE)

SpecWatcher ==
  /\ InitWatcher
  /\ [][NextWatcher]_vars
  /\ WF_vars(TimerFires(1, maxTicks + 2))
  /\ WF_vars(TickResolves(1, TRUE))

\* checkAuth() invoked by activation, login() and logout(), one invocation
\* possibly starting while another is suspended
NextAuth ==
  \/ \E r \in AuthRuns : CheckAuthCall(r)
  \/ \E r \in AuthRuns : CliInstalledSettles(r)
  \/ \E r \in AuthRuns : IsLoggedInSettles(r)
  \/ \E r \in AuthRuns : SetContextReturns(r)

SpecAuth == Init /\ [][NextAuth]_vars

\* the sidebar provider reloaded at any time while the CLI's answers change
NextSidebar ==
  \/ CliChanges(StatusBarCliStates \cup RaceCliStates)
  \/ ReloadCall
  \/ \E rl \in Settled(cli.list, TRUE), rs \in Settled(cli.status, TRUE),
        iterable \in BOOLEAN : ReloadSettles(rl, rs, iterable)

SpecSidebar == Init /\ [][NextSidebar]_vars

\* One login() from its call to its return. The poll timer fires while it is
\* set and the timeout fires once (setInterval, setTimeout); isLoggedIn() and
\* isCliInstalled() settle within exec's timeout and setContext returns: all
\* weakly fair. The user signs in or closes the terminal at any time or never.
NextLogin ==
  \/ LoginCall
  \/ PollFires
  \/ \E authed \in BOOLEAN : PollSettles(authed)
  \/ LoginTerminalCloses
  \/ TimeoutFires
  \/ \E r \in AuthRuns : LoginWaitResumes(r)
  \/ \E r \in AuthRuns : CliInstalledSettles(r)
  \/ \E r \in AuthRuns : IsLoggedInSettles(r)
  \/ \E r \in AuthRuns : SetContextReturns(r)
  \/ LoginReturns

SpecLogin ==
  /\ Init
  /\ [][NextLogin]_vars
  /\ WF_vars(PollFires)
  /\ WF_vars(\E authed \in BOOLEAN : PollSettles(authed))
  /\ WF_vars(TimeoutFires)
  /\ WF_vars(\E r \in AuthRuns : LoginWaitResumes(r))
  /\ WF_vars(\E r \in AuthRuns : CliInstalledSettles(r))
  /\ WF_vars(\E r \in AuthRuns : IsLoggedInSettles(r))
  /\ WF_vars(\E r \in AuthRuns : SetContextReturns(r))
  /\ WF_vars(LoginReturns)

\* the status bar item from activation on, refreshed at any time
NextStatusBar ==
  \/ CliChanges(StatusBarCliStates)
  \/ CreateStatusBar
  \/ UpdateStatusBar
  \/ \E r \in Settled(cli.list, TRUE) : StatusBarListSettles(r)

SpecStatusBar == Init /\ [][NextStatusBar]_vars

\* ------------------------------------------------------------------- claims

\* C1: within one deploy session the success handler and the failure handler
\* are invoked at most once in total, whatever ticks overlap.
C1_AtMostOneHandlerCall ==
  \A d \in Deploys : calls[d].success + calls[d].failure <= 1

\* C2: there are never two deploy terminals running `bs deploy` alive at the
\* same time.
C2_OneDeployTerminalAlive ==
  Cardinality({d \in Deploys : term[d] = "open"}) <= 1

\* C3: at most one watcher interval timer is registered at any time, and it is
\* the one deployWatcherInterval holds.
C3_AtMostOneTimer ==
  /\ Cardinality({d \in Deploys : timerOn[d]}) <= 1
  /\ \A d \in Deploys : timerOn[d] => deployWatcherInterval = d

\* a second watcher registered its timer while the first one's was still
\* registered, and cleared it
C3_Witness ==
  /\ timerOn[2] /\ ~timerOn[1]
  /\ pc[1] = "launched" /\ term[1] = "open"
  /\ ~alreadyFired[1] /\ tickCount[1] = 0

\* the tick of session 1 has run its loop over the CLI's answer
TickEvaluated == queries[1] = 1 /\ inFlight[1] = 0

\* the merged status and URL of the i-th listed project
CurrentStatus(i) == MergedStatus(cli.list[i], StatusMapOf(cli.status)[cli.list[i].name])
CurrentUrl(i) == MergedUrl(cli.list[i], StatusMapOf(cli.status)[cli.list[i].name])
Prev(i) == snapshot[1][cli.list[i].name]

\* the success rule as the claim words it
SuccessAt(i) ==
  /\ CurrentStatus(i) = "live"
  /\ CurrentUrl(i) # ""
  /\ \/ ~Prev(i).present
     \/ Prev(i).status # "live"
     \/ Prev(i).url # CurrentUrl(i)

\* the failure rule as the claim words it
FailureAt(i) ==
  /\ CurrentStatus(i) = "failed"
  /\ Prev(i).present
  /\ Prev(i).status # "failed"

NoEarlierMatch(i) == \A j \in 1..(i - 1) : ~SuccessAt(j) /\ ~FailureAt(j)

\* the tick fired the success event for the i-th listed project
SuccessFiredFor(i) ==
  /\ alreadyFired[1]
  /\ lastEvent.session = 1
  /\ lastEvent.kind = "success"
  /\ lastEvent.name = cli.list[i].name

\* the tick fired the failure event for the i-th listed project
FailureFiredFor(i) ==
  /\ alreadyFired[1]
  /\ lastEvent.session = 1
  /\ lastEvent.kind = "failure"
  /\ lastEvent.name = cli.list[i].name

\* C4: on a poll tick a listed project triggers the success event exactly when
\* it is live with a non-empty URL, it is new or was not live or its URL
\* changed, and no earlier listed project matched; the handler then gets its
\* name and its current URL.
C4_SuccessRule ==
  TickEvaluated =>
    \A i \in 1..Len(cli.list) :
      /\ SuccessFiredFor(i) <=> (SuccessAt(i) /\ NoEarlierMatch(i))
      /\ SuccessFiredFor(i) =>
           /\ lastEvent.url = CurrentUrl(i)
           /\ lastEvent.handler = onSuccess
           /\ calls[1] = [success |-> 1, failure |-> 0]

\* a redeploy: the second listed project was live under u1 and is now live
\* under u2, the first one matched nothing, and the handler got u2
C4_Witness ==
  /\ TickEvaluated
  /\ Len(cli.list) = 2
  /\ SuccessFiredFor(2)
  /\ Prev(2).present /\ Prev(2).status = "live" /\ Prev(2).url = "u1"
  /\ lastEvent.url = "u2"
  /\ calls[1].success = 1

\* C5: a project that was live with URL U when the deploy was triggered and is
\* seen live with U on every tick never causes a success event, whatever the
\* outcome of the two snapshot queries.
C5_NoSuccessForUnchangedLive ==
  (lastEvent.kind = "success")
    => steady[lastEvent.session][lastEvent.name] = ""

\* C6: a listed project whose snapshot status is not "failed" and whose merged
\* status is "failed" triggers the failure event unless an earlier project
\* matched; a project whose snapshot status was already "failed", or that has
\* no snapshot entry, never does.
C6_FailureRule ==
  TickEvaluated =>
    \A i \in 1..Len(cli.list) :
      /\ (FailureAt(i) /\ NoEarlierMatch(i)) => FailureFiredFor(i)
      /\ FailureFiredFor(i) =>
           /\ Prev(i).present /\ Prev(i).status # "failed"
           /\ CurrentStatus(i) = "failed"
           /\ calls[1] = [success |-> 0, failure |-> 1]
      /\ (Prev(i).present /\ Prev(i).status = "failed") => ~FailureFiredFor(i)

\* the tick saw a project failed that was failed in the snapshot already, and
\* fired nothing
C6_Witness ==
  /\ TickEvaluated
  /\ Len(cli.list) = 1
  /\ CurrentStatus(1) = "failed"
  /\ Prev(1).present /\ Prev(1).status = "failed"
  /\ ~alreadyFired[1]
  /\ calls[1] = NoCalls

\* C7: a watcher none of whose ticks matched issues one round of queries on
\* each of the ticks 1..maxTicks, clears its timer on tick maxTicks + 1 without
\* a query, and calls no handler.
C7_TickCeiling ==
  ~alreadyFired[1] =>
    /\ tickCount[1] <= maxTicks + 1
    /\ queries[1] = (IF tickCount[1] <= maxTicks THEN tickCount[1] ELSE maxTicks)
    /\ timerOn[1] <=> (tickCount[1] <= maxTicks)
    /\ calls[1] = NoCalls

\* the timer firing after the last polling tick
C7_Witness ==
  /\ ~alreadyFired[1]
  /\ tickCount[1] = maxTicks + 1
  /\ queries[1] = maxTicks
  /\ inFlight[1] = 0
  /\ ~timerOn[1]

\* C8: when a tick fires the event, the handler finds the session's timer
\* cleared and the indicator disposed; the timer stays cleared, and no later
\* tick of the session issues a query.
C8_StoppedBeforeHandler ==
  /\ [](/\ lastEvent.handler # NoHandler => (~lastEvent.sawTimer /\ ~lastEvent.sawItem)
        /\ \A d \in Deploys : alreadyFired[d] => ~timerOn[d])
  /\ [][\A d \in Deploys : alreadyFired[d] => queries'[d] = queries[d]]_vars

\* a handler was called for a session whose timer had been polling
C8_Witness ==
  /\ lastEvent.session = 1
  /\ lastEvent.handler = "h1"
  /\ alreadyFired[1]
  /\ queries[1] >= 1

\* C9: the step of deploy() that creates the deploy terminal is the step in
\* which both snapshot queries have settled and the snapshot has been built
\* from what they delivered.
C9_SnapshotBeforeLaunch ==
  [][\A d \in Deploys :
       (term[d] = "none" /\ term'[d] # "none") =>
         /\ pc[d] = "snapshot"
         /\ pc'[d] = "launched"
         /\ \E rl \in Settled(cli.list, TRUE), rs \in Settled(cli.status, TRUE) :
              snapshot'[d] = BuildSnapshot(ListOrEmpty(rl), StatusOrEmpty(rs))]_vars

\* a terminal was created for a session whose snapshot holds a project
C9_Witness ==
  /\ term[1] = "open"
  /\ snapshot[1]["app"].present

\* C10: the snapshot of a session does not change once its timer is registered.
C10_SnapshotImmutable ==
  [][\A d \in Deploys : pc[d] = "launched" => snapshot'[d] = snapshot[d]]_vars

\* a session whose snapshot says "building" after a tick saw the project live
C10_Witness ==
  /\ snapshot[1]["app"].present
  /\ snapshot[1]["app"].status = "building"
  /\ alreadyFired[1]
  /\ lastEvent.session = 1
  /\ lastEvent.kind = "success"

\* C11: once the user has closed the deploy terminal of a session that had
\* fired no event, the session's timer is cleared, the indicator is cleared,
\* and no handler is called for the session afterwards, whatever tick was in
\* flight at the close.
C11_SilentAbort ==
  /\ [](\A d \in Deploys :
          (term[d] = "closed" /\ ~alreadyFired[d]) => (~timerOn[d] /\ ~deployStatusItem))
  /\ [][\A d \in Deploys :
          (term[d] = "closed" /\ ~alreadyFired[d]) => calls'[d] = calls[d]]_vars

\* C12: when the tick ceiling is reached without a match the timer is cleared,
\* the in-progress indicator is cleared, and no handler has been called.
C12_CeilingCleanup ==
  (~alreadyFired[1] /\ tickCount[1] > maxTicks) =>
    /\ ~timerOn[1]
    /\ ~deployStatusItem
    /\ calls[1] = NoCalls

\* the step is the continuation of a tick of session d whose loop ended with an
\* event of this kind
TickFires(d, kind) ==
  /\ inFlight[d] > 0
  /\ \E rl \in Settled(cli.list, TRUE), rs \in Settled(cli.status, TRUE) :
       /\ EvaluateTick(ListOrEmpty(rl), StatusOrEmpty(rs), snapshot[d]).kind = kind
       /\ TickContinuation(d, ListOrEmpty(rl), StatusOrEmpty(rs))

\* C13: the tick in which the failure rule matches leaves the timer cleared and
\* the indicator cleared and calls the registered failure handler once, with
\* no payload, and no other handler; with no failure handler registered it
\* calls nothing and still clears both.
C13_FailureCleanup ==
  [][\A d \in Deploys :
       TickFires(d, "failure") =>
         /\ ~timerOn'[d]
         /\ deployWatcherInterval' = 0
         /\ ~deployStatusItem'
         /\ calls'[d].success = calls[d].success
         /\ lastEvent'.kind = "failure" /\ lastEvent'.url = ""
         /\ IF registered.failure # NoHandler
              THEN /\ calls'[d].failure = calls[d].failure + 1
                   /\ lastEvent'.handler = registered.failure
              ELSE /\ calls'[d].failure = calls[d].failure
                   /\ lastEvent'.handler = NoHandler]_vars

\* a project went from building to failed and the registered failure handler
\* was called, the timer and the indicator cleared
C13_Witness ==
  /\ lastEvent.session = 1
  /\ lastEvent.kind = "failure"
  /\ lastEvent.handler = "h1"
  /\ snapshot[1]["app"].status = "building"
  /\ calls[1] = [success |-> 0, failure |-> 1]
  /\ ~timerOn[1]
  /\ ~deployStatusItem

\* everything but the position of the deploy() invocations
AllButPc == <<cli, snapshot, tickCount, alreadyFired, timerOn, inFlight, term,
              activeDeployTerminal, deployWatcherInterval, deployStatusItem,
              onSuccess, onFailure, calls, queries, steady, lastEvent,
              registered, destroyCall, jsonQuery, OtherViews>>

\* C14: the step in which deploy() finds no workspace folder changes nothing
\* but that invocation's own position (it has returned): no query is issued,
\* no timer started or stopped, no terminal created or disposed,
\* activeDeployTerminal and the indicator are as before; the invocation never
\* does anything afterwards.
C14_NoFolderNoChange ==
  [][\A d \in Deploys :
       /\ (pc[d] = "idle" /\ pc'[d] = "noFolder") =>
            /\ UNCHANGED AllButPc
            /\ \A e \in Deploys \ {d} : pc'[e] = pc[e]
       /\ pc[d] = "noFolder" =>
            /\ pc'[d] = "noFolder"
            /\ term'[d] = "none" /\ ~timerOn'[d] /\ queries'[d] = 0]_vars

\* the second deploy() found no folder while the first session was polling,
\* its terminal open and its indicator shown
C14_Witness ==
  /\ pc[2] = "noFolder"
  /\ pc[1] = "launched"
  /\ term[1] = "open" /\ activeDeployTerminal = 1
  /\ timerOn[1] /\ deployWatcherInterval = 1
  /\ inFlight[1] = 1
  /\ deployStatusItem

\* the positions of deploy() before its pre-flight checks have passed, and the
\* ones it returns at without launching
BeforeLaunch == {"idle", "cli", "install", "auth", "login", "reauth",
                 "noFolder", "noCli", "noAuth"}

\* C15: an invocation reaches startDeployWatcher() only from an
\* authentication check (the first, reached only when the CLI check returned
\* true, or the re-check after the login flow) and creates its terminal, its
\* timer and the indicator only after that; with the CLI missing it runs the
\* install command and returns, unauthenticated after the login flow it
\* returns, and in both cases it has no timer and no terminal and none of its
\* steps touches the watcher, a terminal or the indicator.
C15_PreflightGates ==
  /\ [](\A d \in Deploys :
          pc[d] \in BeforeLaunch =>
            /\ term[d] = "none"
            /\ ~timerOn[d]
            /\ queries[d] = 0
            /\ snapshot[d] = NoEntries)
  /\ [][\A d \in Deploys :
          /\ (pc'[d] = "snapshot" /\ pc[d] # "snapshot") => pc[d] \in {"auth", "reauth"}
          /\ (pc'[d] = "auth" /\ pc[d] # "auth") => pc[d] = "cli"
          /\ (pc'[d] = "reauth" /\ pc[d] # "reauth") => pc[d] = "login"
          /\ (pc'[d] = "login" /\ pc[d] # "login") => pc[d] = "auth"
          /\ pc[d] = "cli" => pc'[d] \in {"cli", "auth", "install"}
          /\ pc[d] = "install" => pc'[d] \in {"install", "noCli"}
          /\ pc[d] = "reauth" => pc'[d] \in {"reauth", "snapshot", "noAuth"}
          /\ pc[d] \in {"noCli", "noAuth"} => pc'[d] = pc[d]
          /\ (pc[d] # pc'[d] /\ pc'[d] \in BeforeLaunch) =>
               UNCHANGED <<timerOn, deployWatcherInterval, term, activeDeployTerminal,
                           deployStatusItem, tickCount, queries, snapshot>>]_vars

\* one invocation returned for want of the CLI, the other for want of a login,
\* and neither left a terminal, a timer or the indicator
C15_Witness ==
  /\ pc[1] = "noCli"
  /\ pc[2] = "noAuth"
  /\ \A d \in Deploys : term[d] = "none" /\ ~timerOn[d]
  /\ activeDeployTerminal = 0
  /\ deployWatcherInterval = 0
  /\ ~deployStatusItem

\* C16: a watcher never has more than one poll tick awaiting its list/status
\* queries.
C16_OneQuerySetInFlight ==
  \A d \in Deploys : inFlight[d] <= 1

\* the i-th listed project satisfies one of the two rules
MatchAt(i) == SuccessAt(i) \/ FailureAt(i)

\* the tick fired an event, of either kind, for the i-th listed project
FiredFor(i) == SuccessFiredFor(i) \/ FailureFiredFor(i)

\* C17: the event of a poll tick is the one of the first project, in the order
\* of the list result, that satisfies a rule, success if it satisfies the
\* success rule and failure otherwise; no project listed after it produces an
\* event in that tick, and the tick calls one handler at most.
C17_FirstMatchWins ==
  TickEvaluated =>
    /\ \A i \in 1..Len(cli.list) :
         /\ FiredFor(i) <=> (MatchAt(i) /\ NoEarlierMatch(i))
         /\ SuccessFiredFor(i) => SuccessAt(i)
         /\ FailureFiredFor(i) => (FailureAt(i) /\ ~SuccessAt(i))
         /\ MatchAt(i) => \A j \in (i + 1)..Len(cli.list) : ~FiredFor(j)
    /\ calls[1].success + calls[1].failure <= 1
    /\ (\A i \in 1..Len(cli.list) : ~MatchAt(i)) => (~alreadyFired[1] /\ calls[1] = NoCalls)

\* the first listed project went to failed and the second one to live in the
\* same tick: the failure event was fired, the success handler was not called
C17_Witness ==
  /\ TickEvaluated
  /\ Len(cli.list) = 2
  /\ FailureAt(1)
  /\ SuccessAt(2)
  /\ FailureFiredFor(1)
  /\ calls[1] = [success |-> 0, failure |-> 1]

\* C18: the handler variables hold the handlers passed last; the tick that
\* fires an event calls the handler of its kind that was passed last, once,
\* and no other handler: one that was registered earlier and replaced is not
\* called.
C18_LastRegistrationWins ==
  /\ [](onSuccess = registered.success /\ onFailure = registered.failure)
  /\ [][\A d \in Deploys :
          /\ TickFires(d, "success") =>
               /\ lastEvent'.handler = registered.success
               /\ calls'[d].success =
                    calls[d].success + (IF registered.success # NoHandler THEN 1 ELSE 0)
               /\ calls'[d].failure = calls[d].failure
          /\ TickFires(d, "failure") =>
               /\ lastEvent'.handler = registered.failure
               /\ calls'[d].failure =
                    calls[d].failure + (IF registered.failure # NoHandler THEN 1 ELSE 0)
               /\ calls'[d].success = calls[d].success]_vars

\* h1 was registered for success, then h2 in its place; the success event
\* called h2, once
C18_Witness ==
  /\ registered.successBefore = "h1"
  /\ registered.success = "h2"
  /\ lastEvent.kind = "success"
  /\ lastEvent.handler = "h2"
  /\ calls[1] = [success |-> 1, failure |-> 0]

\* C19: a destroy() invocation has created a terminal and sent the destroy
\* command for its project only if its confirmation returned "Destroy", and
\* not before the confirmation returned; dismissed or answered otherwise, it
\* created no terminal and sent nothing.
C19_DestroyNeedsConfirmation ==
  \A i \in Destroys :
    /\ destroyCall[i].pc \in {"idle", "confirm"} =>
         (~destroyCall[i].terminal /\ destroyCall[i].sent = NoCommand)
    /\ (destroyCall[i].terminal \/ destroyCall[i].sent # NoCommand) =>
         /\ destroyCall[i].pc = "returned"
         /\ destroyCall[i].confirm = "Destroy"
         /\ destroyCall[i].terminal
         /\ destroyCall[i].sent = <<"bs", "destroy", destroyCall[i].projectName, "--force">>
    /\ (destroyCall[i].pc = "returned" /\ destroyCall[i].confirm # "Destroy") =>
         (~destroyCall[i].terminal /\ destroyCall[i].sent = NoCommand)

\* one prompt was dismissed and nothing was sent, another was confirmed and the
\* command went out, a third is still open
C19_Witness ==
  /\ destroyCall[1].pc = "returned"
  /\ destroyCall[1].confirm = "undefined"
  /\ destroyCall[1].sent = NoCommand
  /\ destroyCall[2].pc = "returned"
  /\ destroyCall[2].confirm = "Destroy"
  /\ destroyCall[2].sent = <<"bs", "destroy", "api", "--force">>
  /\ destroyCall[3].pc = "confirm"

\* the stdout texts that are JSON documents
JsonDocuments == {"[]", "{\"projects\":[]}", "null"}

\* C20: a settled JSON query whose subprocess ended without error on text that
\* is not a JSON document is rejected with the parse-failure error of its
\* command; one whose subprocess failed is rejected with the process error and
\* JSON.parse was never called; a query is fulfilled only when the subprocess
\* ended without error on a JSON document, and before exec settles it is
\* pending.
C20_JsonQueryOutcome ==
  /\ jsonQuery.stage # "settled" =>
       (jsonQuery.promise.state = "pending" /\ ~jsonQuery.parsed)
  /\ jsonQuery.stage = "settled" =>
       /\ (jsonQuery.proc.error = "null" /\ jsonQuery.proc.stdout \notin JsonDocuments) =>
            /\ jsonQuery.promise.state = "rejected"
            /\ jsonQuery.promise.message =
                 <<"Failed to parse JSON from:", "bs">> \o jsonQuery.args \o <<"--json">>
       /\ jsonQuery.proc.error # "null" =>
            /\ jsonQuery.promise.state = "rejected"
            /\ ~jsonQuery.parsed
            /\ Len(jsonQuery.promise.message) = Len(jsonQuery.args) + 4
            /\ jsonQuery.promise.message[1] = "bs"
            /\ jsonQuery.promise.message[Len(jsonQuery.args) + 4] \in
                 {"boom", jsonQuery.proc.error}
       /\ jsonQuery.promise.state = "fulfilled" <=>
            (jsonQuery.proc.error = "null" /\ jsonQuery.proc.stdout \in JsonDocuments)
       /\ jsonQuery.promise.state = "rejected" => jsonQuery.promise.value = NoValue

\* `bs status app --json` exited with code 0 and printed the start of a JSON
\* array: the query rejected with the parse failure
C20_Witness ==
  /\ jsonQuery.stage = "settled"
  /\ jsonQuery.args = <<"status", "app">>
  /\ jsonQuery.proc.error = "null"
  /\ jsonQuery.proc.stdout = "[{\"name\":"
  /\ jsonQuery.parsed
  /\ jsonQuery.promise.state = "rejected"
  /\ jsonQuery.promise.message =
       <<"Failed to parse JSON from:", "bs", "status", "app", "--json">>

\* C21: while every poll query fails, no tick calls a handler or fires an
\* event, the indicator stays as it was, and the timer stays registered, each
\* tick up to the ceiling issuing its queries again.
C21_FailedTicksChangeNothing ==
  /\ calls[1] = NoCalls
  /\ ~alreadyFired[1]
  /\ lastEvent = NeverFired
  /\ deployStatusItem
  /\ timerOn[1] <=> (tickCount[1] <= maxTicks)
  /\ queries[1] = (IF tickCount[1] <= maxTicks THEN tickCount[1] ELSE maxTicks)

\* the project went from building to failed, all 600 ticks failed to query,
\* and the timer is still registered
C21_Witness ==
  /\ snapshot[1]["app"].present /\ snapshot[1]["app"].status = "building"
  /\ Len(cli.list) = 1 /\ cli.list[1].status = "failed"
  /\ tickCount[1] = maxTicks
  /\ queries[1] = maxTicks
  /\ inFlight[1] = 0
  /\ timerOn[1]

\* C22: an updateStatusBar() whose list query fails leaves the item's
\* displayed state (text, tooltip, command, visibility) as it was
C22_FailedRefreshKeepsDisplay ==
  [][StatusBarListSettles(Rejected) => Display(statusBar)' = Display(statusBar)]_vars

\* C23: with its timer firing and its queries settling, the interval timer of a
\* started watcher is eventually cleared, whatever the polls return
C23_TimerEventuallyCleared == timerOn[1] ~> ~timerOn[1]

C23_Witness ==
  /\ ~timerOn[1]
  /\ tickCount[1] = maxTicks + 1
  /\ queries[1] = maxTicks
  /\ term[1] = "open"
  /\ lastEvent = NeverFired

\* C24: once a restarted deploy has launched, neither the close event of the
\* disposed previous terminal nor a tick of the previous watcher that was still
\* in flight stops the new timer or clears the new in-progress indicator
C24_PreviousSessionLeavesNewAlone ==
  [][(/\ pc[2] = "launched"
      /\ timerOn[2]
      /\ deployStatusItem
      /\ DisposedTerminalCloses(1) \/ TickResolves(1, TRUE))
     => (timerOn[2]' /\ deployStatusItem')]_vars

\* the status query's entry for a name, as the claim words the lookup
C25_StatusEntryFor(n) ==
  LET js == {j \in 1..Len(cli.status) : cli.status[j].name = n}
  IN IF js = {} THEN [status |-> "", url |-> ""]
     ELSE LET j == CHOOSE k \in js : \A m \in js : m <= k
          IN [status |-> cli.status[j].status, url |-> cli.status[j].url]
C25_Status(p) ==
  IF p.status # "" THEN p.status ELSE C25_StatusEntryFor(p.name).status
C25_Url(p) ==
  IF p.public_url # "" THEN p.public_url ELSE C25_StatusEntryFor(p.name).url
\* the merged state: one entry per listed project, none for any other name
C25_Merged ==
  [n \in Names |->
     LET is == {i \in 1..Len(cli.list) : cli.list[i].name = n}
     IN IF is = {} THEN Absent
        ELSE LET p == cli.list[CHOOSE i \in is : TRUE]
             IN [present |-> TRUE, status |-> C25_Status(p), url |-> C25_Url(p)]]
\* the listed projects whose merged state differs from the snapshot as the two
\* rules require
C25_Matches ==
  {i \in 1..Len(cli.list) :
     LET cur == C25_Merged[cli.list[i].name]
         prev == snapshot[1][cli.list[i].name]
     IN \/ /\ cur.status = "live" /\ cur.url # ""
           /\ (~prev.present \/ prev.status # "live" \/ prev.url # cur.url)
        \/ cur.status = "failed" /\ prev.present /\ prev.status # "failed"}

\* C25: the snapshot is the merged state of the two answers, and a poll tick
\* evaluates that merged state: per listed project the list status, else the
\* status query's status for the name, else empty, likewise the URL; a project
\* only the status query returns has no entry and fires nothing
C25_MergedState ==
  [][/\ SnapshotSettled(1, FALSE) => snapshot[1]' = C25_Merged
     /\ TickResolves(1, FALSE) =>
          IF C25_Matches = {}
            THEN ~alreadyFired[1]' /\ lastEvent' = lastEvent
            ELSE LET i == CHOOSE k \in C25_Matches : \A m \in C25_Matches : k <= m
                     cur == C25_Merged[cli.list[i].name]
                 IN /\ alreadyFired[1]'
                    /\ lastEvent'.name = cli.list[i].name
                    /\ lastEvent'.kind = (IF cur.status = "live" THEN "success" ELSE "failure")
                    /\ cur.status = "live" => lastEvent'.url = cur.url]_vars
\* the snapshot took status and URL from the status query, a project only the
\* status query returns is live, and the tick fired for the listed one
C25_Witness ==
  /\ snapshot[1]["app"] = [present |-> TRUE, status |-> "failed", url |-> "u1"]
  /\ ~snapshot[1]["api"].present
  /\ cli.list = <<[name |-> "app", status |-> "", public_url |-> ""]>>
  /\ cli.status = <<[name |-> "app", status |-> "live", url |-> "u1"]>>
  /\ TickEvaluated
  /\ lastEvent.kind = "success" /\ lastEvent.name = "app" /\ lastEvent.url = "u1"

\* C26: a notification is fired only on a transition of the logged-in flag, so
\* the values notified alternate, starting from the initial false
C26_NotifiesTransitionsOnly ==
  \A k \in 1..Len(authState.notified) :
    authState.notified[k] # (IF k = 1 THEN FALSE ELSE authState.notified[k - 1])

\* C27: a reload() in which the list query or the status query fails leaves
\* projects, statusMap and detailCache as they were and fires no tree-change
\* event; the stored state changes only in a reload() whose queries both
\* succeeded
C27_FailedReloadChangesNothing ==
  [][/\ \A rl \in Settled(cli.list, TRUE), rs \in Settled(cli.status, TRUE),
           iterable \in BOOLEAN :
          (ReloadSettles(rl, rs, iterable) /\ ~(rl.ok /\ rs.ok)) =>
            (Stored(sidebar)' = Stored(sidebar) /\ sidebar.fired' = sidebar.fired)
     /\ Stored(sidebar)' # Stored(sidebar) =>
          \E rl \in Settled(cli.list, FALSE), rs \in Settled(cli.status, FALSE),
             iterable \in BOOLEAN : ReloadSettles(rl, rs, iterable)]_vars
\* a loaded provider whose latest reload failed against a CLI answer that
\* differs from what it holds
C27_Witness ==
  /\ sidebar.outcome = "failed"
  /\ sidebar.pending = 0
  /\ sidebar.fired = 1
  /\ Len(sidebar.projects) = 1
  /\ sidebar.statusMap["app"].present
  /\ cli.list # sidebar.projects

\* C28: a project with no snapshot entry never triggers the failure event; a
\* session whose snapshot is empty ends by a success event or at the ceiling
C28_AbsentNeverFails ==
  /\ \A n \in Names :
       ~snapshot[1][n].present => ~(lastEvent.kind = "failure" /\ lastEvent.name = n)
  /\ (snapshot[1] = NoEntries /\ ~timerOn[1]) =>
       (lastEvent.kind = "success" \/ tickCount[1] = maxTicks + 1)
\* a session whose snapshot missed the project, stopped by the ceiling after
\* 600 query sets with nothing fired, the project failed
C28_Witness ==
  /\ snapshot[1] = NoEntries
  /\ Len(cli.list) = 1 /\ cli.list[1].status = "failed"
  /\ queries[1] = maxTicks /\ inFlight[1] = 0
  /\ tickCount[1] = maxTicks + 1
  /\ ~timerOn[1]
  /\ lastEvent = NeverFired

\* C29: activeDeployTerminal is unset only by the close of the terminal it
\* refers to or by a replacing deploy(): the close listener of another, older
\* terminal never unsets it
C29_OlderCloseKeepsHandle ==
  [][\A d \in Deploys :
       (CloseListener(d) /\ activeDeployTerminal # 0 /\ activeDeployTerminal # d)
         => activeDeployTerminal' = activeDeployTerminal]_vars

\* C30: login() eventually returns; its wait is resolved by the first of a poll
\* that saw the user logged in, the close of the login terminal and the
\* timeout; the path that resolves it clears the poll timer; no query is
\* issued by a poll after the wait resolved
C30_LoginReturns ==
  /\ [](loginCall.resolved <=> loginCall.resolvedBy \in {"poll", "close", "timeout"})
  /\ [](loginCall.resolved => ~loginCall.pollOn)
  /\ [](loginCall.resolved => loginCall.queried = loginCall.queriedAtResolve)
  /\ [](loginCall.pc \in {"checkAuth", "returned"} => loginCall.resolved)
  /\ (loginCall.pc = "waiting") ~> (loginCall.pc = "returned")
\* the user never signed in and left the terminal open: the timeout resolved
\* the wait after every poll had queried, and login() returned
C30_Witness ==
  /\ loginCall.pc = "returned"
  /\ loginCall.resolvedBy = "timeout"
  /\ loginCall.polls = MaxPolls
  /\ loginCall.queried = MaxPolls
  /\ loginCall.terminal = "open"
  /\ ~loginCall.pollOn

====
